---- MODULE Spec2Model ----
(***************************************************************************)
(* Session lifecycle and streaming core of the TradingCrew web service:    *)
(* SessionManager (session store, admission and queue, stream aggregator,  *)
(* retry, delete, graceful shutdown) and the session routes that call it.  *)
(*                                                                         *)
(* The service runs on one JavaScript event loop.  Code between two awaits *)
(* runs without interruption, so every action below is one such stretch:   *)
(* a route handler from the await that resumes it to its next await, or a  *)
(* runAnalysis task from one feed chunk to the next.                        *)
(*                                                                         *)
(* Representation.                                                          *)
(*  - A session id is the index of the record in `sessions`, in creation   *)
(*    order; the Map `sessions` of the code iterates in insertion order,   *)
(*    which is ascending id over `store`.                                  *)
(*  - `sessions` keeps the record object of a deleted session, because the *)
(*    runAnalysis task of that session still holds the reference and       *)
(*    mutates it; `store` is the key set of the Map.                       *)
(*  - Text is a string; null, undefined and '' are all the empty string,   *)
(*    since the code reads agent and content only through truthiness.      *)
(*  - createdAt is the creation second; getTime maps it to milliseconds.   *)
(*  - The immutable request parameters (ticker, market, model, dates) are  *)
(*    never read by the lifecycle logic and are left out of the record.    *)
(***************************************************************************)
EXTENDS Integers, Sequences, FiniteSets, TLC

\* ---------------------------------------------------------------- bounds
\* Sessions created (and create requests received) in one run.
MaxSessions == 3
\* Creation seconds 1..MaxClock; two creations may fall in the same second.
MaxClock == 2
\* node_end events folded into one run of a session.
MaxProgress == 1
\* Characters accumulated from token events by one task.
MaxAccLen == 1

\* Sessions created in one run of the specification of the full feed.
MaxFeedSessions == 2

\* Status streams opened in one run.
MaxStreams == 2

\* Controllers subscribed in one run of the specification of the hub.
MaxHubStreams == 3
\* Snapshots published for the sessions of the subscribed controllers.
MaxHubQueue == 2

\* ------------------------------------------------------------- constants
AGENT_ORDER ==
    << "Market Analyst", "Social Analyst", "News Analyst",
       "Fundamentals Analyst", "Bull Researcher", "Bear Researcher",
       "Research Manager", "Trader", "Risky Analyst", "Safe Analyst",
       "Neutral Analyst", "Risk Manager", "Portfolio Manager" >>

\* The stage selection retrySession and startNextQueuedSession fall back to.
DefaultAnalysts == << "market", "social", "news", "fundamentals" >>

\* Longest errorMsg kept: substring(0, 200).
ErrorMsgLimit == 200

\* ------------------------------------------------------------ input sets
\* ADMIN_USERS of the environment.
AdminUsers == {"bob"}
\* X-Username of a request; '' is the anonymous requester.
UserNames == {"", "alice", "bob"}
\* Users who create sessions in the lifecycle specification.
Owners == {"", "alice"}
\* Stage selections a create request carries.
AnalystChoices == { DefaultAnalysts }
\* Feed chunks of the lifecycle specification.
LifecycleEvents ==
    { [type |-> "heartbeat", agent |-> "", content |-> ""],
      [type |-> "node_end", agent |-> "Market Analyst", content |-> "r"],
      [type |-> "complete", agent |-> "", content |-> "BUY"],
      [type |-> "error", agent |-> "", content |-> "boom"] }
\* Messages of an exception thrown while the feed is consumed.
FailureMessages == { "boom" }

VARIABLES
    sessions,      \* SessionManager.sessions: the record objects, by id
    store,         \* key set of SessionManager.sessions
    runningTasks,  \* key set of SessionManager.runningTasks
    tasks,         \* the runAnalysis invocation of each session id
    disk,          \* content of sessions.json
    reqs,          \* POST /api/sessions requests, in arrival order
    now,           \* second of the latest creation
    halted,        \* process.exit was called
    saved,         \* snapshots written by saveSessions in the last step
    published,     \* sseManager.publish calls of the last step
    subscribers,   \* SSEManager.subscribers: session id -> set of controllers
    streams,       \* the status streams opened, with their controllers
    resp           \* HTTP status answered in the last step, 0 if none

vars == << sessions, store, runningTasks, tasks, disk, reqs, now, halted,
           saved, published, subscribers, streams, resp >>

EmptyReports == [a \in {} |-> ""]

NoTask == [alive |-> FALSE, aborted |-> FALSE, accumulatedContent |-> "",
           analysts |-> << >>]

Requesters == { [username |-> u, isAdmin |-> (u \in AdminUsers)] : u \in UserNames }

\* ------------------------------------------------ the manager as a value
\* The mutable state of SessionManager and the effects of the current step.
Cur ==
    [ sessions |-> sessions, store |-> store, runningTasks |-> runningTasks,
      tasks |-> tasks, disk |-> disk, saved |-> << >>, published |-> << >>,
      subscribers |-> subscribers, streams |-> streams ]

\* What is left of a record object once the Map has dropped it and no
\* runAnalysis invocation holds it: nothing can read it any more.
Unreachable ==
    [ userId |-> "", status |-> "deleted", decision |-> "", progress |-> << >>,
      reports |-> EmptyReports, createdAt |-> 0, errorMsg |-> "",
      currentAgent |-> "", analysts |-> << >> ]

\* A stream handler holds the record from its getSession call until it has
\* read session.status after the first write.
HeldByStream(m, i) ==
    \E k \in 1..Len(m.streams) : m.streams[k].sid = i /\ m.streams[k].pc = "initial"

Collect(m) ==
    [i \in DOMAIN m.sessions |->
        IF i \notin m.store /\ ~m.tasks[i].alive /\ ~HeldByStream(m, i)
        THEN Unreachable ELSE m.sessions[i]]

Install(m) ==
    \E after \in {m} :
        /\ sessions' = Collect(after)
        /\ store' = after.store
        /\ runningTasks' = after.runningTasks
        /\ tasks' = after.tasks
        /\ disk' = after.disk
        /\ saved' = after.saved
        /\ published' = after.published
        /\ subscribers' = after.subscribers
        /\ streams' = after.streams

\* Array.from(this.sessions.values()): the records of the Map, by id.
StoreSnapshot(m) == [i \in m.store |-> m.sessions[i]]

saveSessions(m) ==
    [m EXCEPT !.disk = StoreSnapshot(m),
              !.saved = Append(@, StoreSnapshot(m))]

\* parseSession on one element of sessions.json: every field through its
\* `||` default.  The file holds the keys saveSessions wrote (camelCase);
\* the _analysts property of the record is written to the file and dropped
\* here.
parseSession(data) ==
    [ userId |-> data.userId,
      status |-> IF data.status # "" THEN data.status ELSE "pending",
      decision |-> data.decision,
      progress |-> data.progress,
      reports |-> data.reports,
      createdAt |-> data.createdAt,
      errorMsg |-> data.errorMsg,
      currentAgent |-> data.currentAgent,
      analysts |-> << >> ]

\* loadSessions that keeps a running record as it was saved.
loadSessionsKeepsRunning(data, i) == parseSession(data[i])

\* The body of the loop of loadSessions for element i of the file: the
\* record it puts in the Map.
loadSessions(data, i) ==
    LET session == parseSession(data[i])
    IN  IF session.status = "running"
        THEN [session EXCEPT !.status = "error",
                             !.errorMsg = "Server restarted, analysis interrupted",
                             !.currentAgent = ""]
        ELSE session

\* A publish whose loop ends at the first controller whose enqueue throws:
\* the controllers registered after it (a Set is walked in insertion order)
\* are sent nothing.
ssePublishStopsAtFailure(m, sessionId, data) ==
    IF sessionId \notin DOMAIN m.subscribers \/ m.subscribers[sessionId] = {}
    THEN m
    ELSE LET controllers == m.subscribers[sessionId]
             failed == {c \in controllers : m.streams[c].broken}
             first == IF failed = {} THEN Len(m.streams) + 1
                      ELSE CHOOSE c \in failed : \A o \in failed : c <= o
         IN  [m EXCEPT !.streams =
                           [c \in DOMAIN @ |->
                               IF c \in controllers /\ c < first
                               THEN [@[c] EXCEPT !.queue = Append(@, data)]
                               ELSE @[c]],
                       !.subscribers[sessionId] = @ \ {first}]

\* SSEManager.publish: the message is the serialized snapshot, enqueued on
\* every controller registered for the session id; a controller whose
\* enqueue throws is dropped from the set.
ssePublish(m, sessionId, data) ==
    IF sessionId \notin DOMAIN m.subscribers \/ m.subscribers[sessionId] = {}
    THEN m
    ELSE LET controllers == m.subscribers[sessionId]
             failed == {c \in controllers : m.streams[c].broken}
         IN  [m EXCEPT !.streams =
                           [c \in DOMAIN @ |->
                               IF c \in controllers \ failed
                               THEN [@[c] EXCEPT !.queue = Append(@, data)]
                               ELSE @[c]],
                       !.subscribers[sessionId] = @ \ failed]

\* SSEManager.closeSession: every controller of the session id is closed
\* (a closed stream throws on enqueue, as an errored one does: `broken`) and
\* the id is dropped from the Map.
sseCloseSession(m, sessionId) ==
    IF sessionId \notin DOMAIN m.subscribers
    THEN m
    ELSE [m EXCEPT !.streams =
                       [c \in DOMAIN @ |->
                           IF c \in m.subscribers[sessionId]
                           THEN [@[c] EXCEPT !.broken = TRUE] ELSE @[c]],
                   !.subscribers = [i \in DOMAIN @ \ {sessionId} |-> @[i]]]

\* The consumer cancels stream c: the stream is closed and the cancel
\* callback of subscribe runs, which drops the id when its set is empty and
\* leaves the controller where it is.
sseCancel(m, sessionId, c) ==
    LET m1 == [m EXCEPT !.streams[c].broken = TRUE]
    IN  IF sessionId \in DOMAIN m.subscribers /\ m.subscribers[sessionId] = {}
        THEN [m1 EXCEPT !.subscribers = [i \in DOMAIN @ \ {sessionId} |-> @[i]]]
        ELSE m1

\* History kept for the properties: every open stream of the session
\* notes what was published for it since the stream was opened.
NotePublished(m, sessionId, data) ==
    [m EXCEPT !.streams =
        [k \in DOMAIN @ |->
            IF @[k].sid = sessionId THEN [@[k] EXCEPT !.since = Append(@, data)]
            ELSE @[k]]]

\* sseManager.publish(sessionId, session) as the session manager calls it.
publish(m, id) ==
    CHOOSE after \in
        { LET data == before.sessions[id]
          IN  ssePublish(NotePublished([before EXCEPT !.published =
                                            Append(@, [id |-> id, data |-> data])],
                                       id, data),
                         id, data) : before \in {m} } : TRUE

getNextAgent(agent) ==
    LET hits == {i \in 1..Len(AGENT_ORDER) : AGENT_ORDER[i] = agent}
    IN  IF hits # {} /\ (CHOOSE i \in hits : TRUE) + 1 <= Len(AGENT_ORDER)
        THEN AGENT_ORDER[(CHOOSE i \in hits : TRUE) + 1]
        ELSE ""

getTime(createdAt) == createdAt * 1000

createSession(m, userId, createdAt) ==
    LET session == [ userId |-> userId, status |-> "pending", decision |-> "",
                     progress |-> << >>, reports |-> EmptyReports,
                     createdAt |-> createdAt, errorMsg |-> "",
                     currentAgent |-> "", analysts |-> << >> ]
        id == Len(m.sessions) + 1
    IN  saveSessions([m EXCEPT !.sessions = Append(@, session),
                               !.tasks = Append(@, NoTask),
                               !.store = @ \cup {id}])

\* The record, or 0 for null.
getSession(m, sessionId, userId, isAdmin) ==
    IF sessionId \notin m.store THEN 0
    ELSE IF isAdmin THEN sessionId
    ELSE IF userId # "" /\ m.sessions[sessionId].userId # ""
            /\ m.sessions[sessionId].userId # userId THEN 0
    ELSE sessionId

\* The ascending sequence of the ids in set S: Map iteration order.
RECURSIVE InMapOrder(_)
InMapOrder(S) ==
    IF S = {} THEN << >>
    ELSE LET last == CHOOSE i \in S : \A j \in S : j <= i
         IN  Append(InMapOrder(S \ {last}), last)

\* Array.prototype.sort with the comparator of getAllSessions, which is
\* stable: list[k] goes before the first id placed so far whose createdAt
\* is earlier, behind the ids of the same or a later createdAt.
RECURSIVE SortNewestFirst(_, _, _)
SortNewestFirst(m, list, k) ==
    IF k = 0 THEN << >>
    ELSE LET done == SortNewestFirst(m, list, k - 1)
             x == list[k]
             earlier == {j \in 1..Len(done) :
                            getTime(m.sessions[done[j]].createdAt)
                                - getTime(m.sessions[x].createdAt) < 0}
             at == IF earlier = {} THEN Len(done) + 1
                   ELSE CHOOSE j \in earlier : \A o \in earlier : j <= o
         IN  SubSeq(done, 1, at - 1) \o << x >> \o SubSeq(done, at, Len(done))

\* The ids of the records the requester lists, in the order answered.
getAllSessions(m, userId, isAdmin) ==
    LET visible == IF isAdmin THEN m.store
                   ELSE IF userId # ""
                   THEN {i \in m.store : m.sessions[i].userId = userId}
                   ELSE {i \in m.store : m.sessions[i].userId = ""}
        list == InMapOrder(visible)
    IN  SortNewestFirst(m, list, Len(list))

\* The summaries answered; queuePosition 0 stands for the absent property.
getAllSessionSummaries(m, userId, isAdmin) ==
    LET list == getAllSessions(m, userId, isAdmin)
        key(i) == IF m.sessions[i].userId # "" THEN m.sessions[i].userId
                  ELSE "__anonymous__"
        \* userQueuePositions.get(key) after element k was mapped
        pos(k) == Cardinality({j \in 1..k :
                      m.sessions[list[j]].status = "queued"
                      /\ key(list[j]) = key(list[k])})
    IN  [k \in 1..Len(list) |->
            LET session == m.sessions[list[k]]
            IN  [ id |-> list[k], userId |-> session.userId,
                  status |-> session.status, decision |-> session.decision,
                  progress |-> session.progress,
                  createdAt |-> session.createdAt,
                  errorMsg |-> session.errorMsg,
                  currentAgent |-> session.currentAgent,
                  queuePosition |-> IF session.status = "queued"
                                    THEN pos(k) ELSE 0 ]]

\* getRunningCount without the scoping by requester.
getRunningCountUnscoped(m, userId, isAdmin) ==
    Cardinality({i \in m.store : m.sessions[i].status = "running"})

\* The number of running records the requester may count.
getRunningCount(m, userId, isAdmin) ==
    Cardinality({i \in m.store :
        /\ m.sessions[i].status = "running"
        /\ \/ isAdmin
           \/ ~isAdmin /\ userId # "" /\ m.sessions[i].userId = userId
           \/ ~isAdmin /\ userId = "" /\ m.sessions[i].userId = ""})

\* getUserRunningSession that finds nothing: the slot always looks free.
getUserRunningSessionBlind(m, userId) == 0

\* The first running record of the user in Map order, or 0 for null.
getUserRunningSession(m, userId) ==
    LET hits == {i \in m.store : m.sessions[i].status = "running"
                                 /\ m.sessions[i].userId = userId}
    IN  IF hits = {} THEN 0 ELSE CHOOSE i \in hits : \A j \in hits : i <= j

\* startSessionNow that marks the session running and launches no task.
startSessionNowNoTask(m, sessionId, analysts) ==
    IF sessionId \notin m.store THEN m
    ELSE publish(saveSessions(
             [m EXCEPT !.sessions[sessionId].status = "running",
                       !.sessions[sessionId].currentAgent = AGENT_ORDER[1]]),
             sessionId)

startSessionNow(m, sessionId, analysts) ==
    IF sessionId \notin m.store THEN m
    ELSE LET m1 == [m EXCEPT !.sessions[sessionId].status = "running",
                             !.sessions[sessionId].currentAgent =
                                 IF Len(AGENT_ORDER) > 0 THEN AGENT_ORDER[1] ELSE ""]
             m2 == publish(saveSessions(m1), sessionId)
         IN  [m2 EXCEPT !.runningTasks = @ \cup {sessionId},
                        !.tasks[sessionId] =
                            [alive |-> TRUE, aborted |-> FALSE,
                             accumulatedContent |-> "", analysts |-> analysts]]

\* startSession that queues without publishing the change.
startSessionSilentQueue(m, sessionId, analysts) ==
    IF sessionId \notin m.store THEN m
    ELSE LET m1 == [m EXCEPT !.sessions[sessionId].analysts = analysts]
             runningSession == getUserRunningSession(m1, m1.sessions[sessionId].userId)
         IN  IF runningSession # 0
             THEN saveSessions([m1 EXCEPT !.sessions[sessionId].status = "queued"])
             ELSE startSessionNow(m1, sessionId, analysts)

startSession(m, sessionId, analysts) ==
    IF sessionId \notin m.store THEN m
    ELSE LET m1 == [m EXCEPT !.sessions[sessionId].analysts = analysts]
             runningSession == getUserRunningSession(m1, m1.sessions[sessionId].userId)
         IN  IF runningSession # 0
             THEN publish(saveSessions(
                      [m1 EXCEPT !.sessions[sessionId].status = "queued"]), sessionId)
             ELSE startSessionNow(m1, sessionId, analysts)

\* ScanQueued keeping the latest createdAt instead of the earliest.
RECURSIVE ScanQueuedNewest(_, _, _, _, _)
ScanQueuedNewest(m, userId, i, nextSession, earliestTime) ==
    IF i > Len(m.sessions) THEN nextSession
    ELSE IF i \in m.store /\ m.sessions[i].status = "queued"
            /\ m.sessions[i].userId = userId
            /\ (earliestTime = -1 \/ getTime(m.sessions[i].createdAt) > earliestTime)
         THEN ScanQueuedNewest(m, userId, i + 1, i, getTime(m.sessions[i].createdAt))
         ELSE ScanQueuedNewest(m, userId, i + 1, nextSession, earliestTime)

\* The loop of startNextQueuedSession over the Map from position i on:
\* nextSession (0 for null) and earliestTime (-1 for Infinity) so far.
RECURSIVE ScanQueued(_, _, _, _, _)
ScanQueued(m, userId, i, nextSession, earliestTime) ==
    IF i > Len(m.sessions) THEN nextSession
    ELSE IF i \in m.store /\ m.sessions[i].status = "queued"
            /\ m.sessions[i].userId = userId
            /\ (earliestTime = -1 \/ getTime(m.sessions[i].createdAt) < earliestTime)
         THEN ScanQueued(m, userId, i + 1, i, getTime(m.sessions[i].createdAt))
         ELSE ScanQueued(m, userId, i + 1, nextSession, earliestTime)

startNextQueuedSession(m, userId) ==
    LET nextSession == ScanQueued(m, userId, 1, 0, -1)
    IN  IF nextSession # 0
        THEN startSessionNow(m, nextSession,
                 IF m.sessions[nextSession].analysts # << >>
                 THEN m.sessions[nextSession].analysts ELSE DefaultAnalysts)
        ELSE m

\* session.reports[agent] = text
SetReport(reports, agent, text) ==
    [a \in DOMAIN reports \cup {agent} |-> IF a = agent THEN text ELSE reports[a]]

\* The finally clause without the promotion of the next queued session.
runAnalysisFinallyNoPromotion(m, sessionId) ==
    [m EXCEPT !.runningTasks = @ \ {sessionId}, !.tasks[sessionId] = NoTask]

\* The finally clause that leaves the ended task in the registry.
runAnalysisFinallyKeepsTask(m, sessionId) ==
    LET m1 == [m EXCEPT !.tasks[sessionId] = NoTask]
    IN  IF m.sessions[sessionId].userId # ""
        THEN startNextQueuedSession(m1, m.sessions[sessionId].userId)
        ELSE m1

\* The finally clause of runAnalysis.  The invocation ends here, so its
\* locals are dropped.
runAnalysisFinally(m, sessionId) ==
    LET m1 == [m EXCEPT !.runningTasks = @ \ {sessionId},
                        !.tasks[sessionId] = NoTask]
    IN  IF m.sessions[sessionId].userId # ""
        THEN startNextQueuedSession(m1, m.sessions[sessionId].userId)
        ELSE m1

\* substring that cuts nothing.
SubstringWhole(text, n) == text

\* text.substring(0, n)
Substring(text, n) == SubSeq(text, 1, IF Len(text) < n THEN Len(text) ELSE n)

\* A switch that publishes the session on every chunk, whatever its type.
foldChunkAlwaysPublishes(m, sessionId, chunk) ==
    [m |-> publish(m, sessionId), returned |-> FALSE]

\* The switch of runAnalysis on one chunk: the manager after it, and whether
\* the case returned.  The locals currentAgent and tokenCount of the code
\* are written and never read; accumulatedContent is the only local kept.
foldChunk(m, sessionId, chunk) ==
    LET agent == chunk.agent
        content == chunk.content
        session == m.sessions[sessionId]
        failed(msg) ==
            publish(saveSessions(
                [m EXCEPT !.sessions[sessionId].status = "error",
                          !.sessions[sessionId].errorMsg = msg,
                          !.sessions[sessionId].currentAgent = ""]), sessionId)
    IN  CASE chunk.type = "heartbeat" ->
               [m |-> m, returned |-> FALSE]
          [] chunk.type = "node_start" ->
               [m |-> IF agent # ""
                      THEN publish(saveSessions(
                               [m EXCEPT !.tasks[sessionId].accumulatedContent = "",
                                         !.sessions[sessionId].currentAgent = agent]),
                               sessionId)
                      ELSE m,
                returned |-> FALSE]
          [] chunk.type = "token" ->
               [m |-> IF agent # "" /\ content # ""
                      THEN LET acc == m.tasks[sessionId].accumulatedContent \o content
                           IN  publish(
                                   [m EXCEPT !.tasks[sessionId].accumulatedContent = acc,
                                             !.sessions[sessionId].reports =
                                                 SetReport(@, agent, acc)],
                                   sessionId)
                      ELSE m,
                returned |-> FALSE]
          [] chunk.type = "node_end" ->
               [m |-> LET m1 == IF agent # "" /\ content # ""
                                THEN publish(saveSessions(
                                         [m EXCEPT !.sessions[sessionId].reports =
                                                       SetReport(@, agent, content),
                                                   !.sessions[sessionId].progress =
                                                       Append(@, agent),
                                                   !.sessions[sessionId].currentAgent =
                                                       getNextAgent(agent)]),
                                         sessionId)
                                ELSE m
                      IN  [m1 EXCEPT !.tasks[sessionId].accumulatedContent = ""],
                returned |-> FALSE]
          [] chunk.type = "complete" ->
               [m |-> publish(saveSessions(
                          [m EXCEPT !.sessions[sessionId].decision =
                                        IF content # "" THEN content ELSE "HOLD",
                                    !.sessions[sessionId].status = "completed",
                                    !.sessions[sessionId].currentAgent = ""]),
                          sessionId),
                returned |-> TRUE]
          [] chunk.type = "quota_error" ->
               [m |-> failed("API quota exhausted"), returned |-> TRUE]
          [] chunk.type = "timeout_error" ->
               [m |-> failed("Network response timeout"), returned |-> TRUE]
          [] chunk.type = "error" ->
               [m |-> failed(Substring(IF content # "" THEN content
                                       ELSE "Unknown error", ErrorMsgLimit)),
                returned |-> TRUE]
          [] OTHER ->
               [m |-> m, returned |-> FALSE]

\* A pass of the loop that goes on to the next chunk whatever the case did.
runAnalysisChunkNoReturn(m, sessionId, chunk) ==
    IF m.tasks[sessionId].aborted
    THEN runAnalysisFinally(m, sessionId)
    ELSE foldChunk(m, sessionId, chunk).m

\* One pass of the for-await loop: the abort check, then the switch, then
\* the finally clause when the pass returned.
runAnalysisChunk(m, sessionId, chunk) ==
    IF m.tasks[sessionId].aborted
    THEN runAnalysisFinally(m, sessionId)
    ELSE LET r == foldChunk(m, sessionId, chunk)
         IN  IF r.returned THEN runAnalysisFinally(r.m, sessionId) ELSE r.m

\* The feed ended: the statements after the loop, then the finally clause.
runAnalysisEnd(m, sessionId) ==
    LET m1 == IF m.sessions[sessionId].status = "running"
              THEN publish(saveSessions(
                       [m EXCEPT !.sessions[sessionId].status = "completed",
                                 !.sessions[sessionId].currentAgent = ""]), sessionId)
              ELSE m
    IN  runAnalysisFinally(m1, sessionId)

\* The catch clause without the fallback text for an empty message.
runAnalysisCatchNoFallback(m, sessionId, message) ==
    LET m1 == publish(saveSessions(
                  [m EXCEPT !.sessions[sessionId].status = "error",
                            !.sessions[sessionId].errorMsg =
                                Substring(message, ErrorMsgLimit),
                            !.sessions[sessionId].currentAgent = ""]), sessionId)
    IN  runAnalysisFinally(m1, sessionId)

\* The feed threw: the catch clause, then the finally clause.
runAnalysisCatch(m, sessionId, message) ==
    LET msg == IF Substring(message, ErrorMsgLimit) # ""
               THEN Substring(message, ErrorMsgLimit) ELSE "Unknown error"
        m1 == publish(saveSessions(
                  [m EXCEPT !.sessions[sessionId].status = "error",
                            !.sessions[sessionId].errorMsg = msg,
                            !.sessions[sessionId].currentAgent = ""]), sessionId)
    IN  runAnalysisFinally(m1, sessionId)

deleteSession(m, sessionId) ==
    IF sessionId \in m.store
    THEN LET m1 == IF sessionId \in m.runningTasks
                   THEN [m EXCEPT !.tasks[sessionId].aborted = TRUE,
                                  !.runningTasks = @ \ {sessionId}]
                   ELSE m
         IN  saveSessions([m1 EXCEPT !.store = @ \ {sessionId}])
    ELSE m

\* retrySession that forgets to clear progress.
retrySessionKeepsProgress(m, sessionId, analysts) ==
    IF sessionId \notin m.store THEN m
    ELSE LET m1 == saveSessions(
                       [m EXCEPT !.sessions[sessionId].status = "pending",
                                 !.sessions[sessionId].errorMsg = "",
                                 !.sessions[sessionId].reports = EmptyReports,
                                 !.sessions[sessionId].decision = "",
                                 !.sessions[sessionId].currentAgent = ""])
         IN  startSession(m1, sessionId,
                          IF analysts # << >> THEN analysts ELSE DefaultAnalysts)

\* analysts = << >> stands for the omitted argument.
retrySession(m, sessionId, analysts) ==
    IF sessionId \notin m.store THEN m
    ELSE LET m1 == saveSessions(
                       [m EXCEPT !.sessions[sessionId].status = "pending",
                                 !.sessions[sessionId].errorMsg = "",
                                 !.sessions[sessionId].progress = << >>,
                                 !.sessions[sessionId].reports = EmptyReports,
                                 !.sessions[sessionId].decision = "",
                                 !.sessions[sessionId].currentAgent = ""])
         IN  startSession(m1, sessionId,
                          IF analysts # << >> THEN analysts ELSE DefaultAnalysts)

\* gracefulShutdown that marks the queued sessions as interrupted too.
gracefulShutdownQueuedToo(m) ==
    LET interrupted == {i \in m.store : m.sessions[i].status \in {"running", "queued"}}
        m1 == [m EXCEPT !.sessions =
                  [i \in DOMAIN m.sessions |->
                      IF i \in interrupted
                      THEN [m.sessions[i] EXCEPT
                              !.status = "error",
                              !.errorMsg = "Server restarted, analysis interrupted (click retry to continue)",
                              !.currentAgent = ""]
                      ELSE m.sessions[i]]]
        m2 == IF interrupted # {} THEN saveSessions(m1) ELSE m1
    IN  [m2 EXCEPT !.tasks = [i \in DOMAIN m.tasks |->
                                 IF i \in m.runningTasks
                                 THEN [m.tasks[i] EXCEPT !.aborted = TRUE]
                                 ELSE m.tasks[i]],
                   !.runningTasks = {}]

\* gracefulShutdown that marks the running sessions and does not save.
gracefulShutdownNoSave(m) ==
    [m EXCEPT !.sessions =
                  [i \in DOMAIN @ |->
                      IF i \in m.store /\ @[i].status = "running"
                      THEN [@[i] EXCEPT
                              !.status = "error",
                              !.errorMsg = "Server restarted, analysis interrupted (click retry to continue)",
                              !.currentAgent = ""]
                      ELSE @[i]],
              !.tasks = [i \in DOMAIN @ |->
                            IF i \in m.runningTasks
                            THEN [@[i] EXCEPT !.aborted = TRUE] ELSE @[i]],
              !.runningTasks = {}]

gracefulShutdown(m) ==
    LET interrupted == {i \in m.store : m.sessions[i].status = "running"}
        m1 == [m EXCEPT !.sessions =
                  [i \in DOMAIN m.sessions |->
                      IF i \in interrupted
                      THEN [m.sessions[i] EXCEPT
                              !.status = "error",
                              !.errorMsg = "Server restarted, analysis interrupted (click retry to continue)",
                              !.currentAgent = ""]
                      ELSE m.sessions[i]]]
        m2 == IF interrupted # {} THEN saveSessions(m1) ELSE m1
    IN  [m2 EXCEPT !.tasks = [i \in DOMAIN m.tasks |->
                                 IF i \in m.runningTasks
                                 THEN [m.tasks[i] EXCEPT !.aborted = TRUE]
                                 ELSE m.tasks[i]],
                   !.runningTasks = {}]

\* GET /api/sessions/:id: the HTTP status and the record answered (none
\* with 404).  The handler changes nothing.
GetRoute(m, id, requester) ==
    IF getSession(m, id, requester.username, requester.isAdmin) = 0
    THEN [resp |-> 404, body |-> << >>]
    ELSE [resp |-> 200, body |-> << m.sessions[id] >>]

\* SSEManager.subscribe: the start callback of the new ReadableStream
\* registers its controller c for the session id.
sseSubscribe(m, sessionId, c) ==
    [m EXCEPT !.subscribers =
        [i \in DOMAIN @ \cup {sessionId} |->
            IF i = sessionId
            THEN (IF i \in DOMAIN @ THEN @[i] ELSE {}) \cup {c}
            ELSE @[i]]]

\* GET /api/sessions/:id/stream up to its first await: getSession, then the
\* stream callback serializes the record and writes it to the client.  The
\* stream is k = Len(streams); `received` is what the client was sent,
\* `queue` what its controller holds unread, `since` what was published for
\* the session since the stream was opened and `at` how much of that
\* had been published when the controller was registered.
StreamRoute(m, id, requester) ==
    IF getSession(m, id, requester.username, requester.isAdmin) = 0
    THEN [m |-> m, resp |-> 404]
    ELSE [m |-> [m EXCEPT !.streams =
                    Append(@, [sid |-> id, username |-> requester.username,
                               isAdmin |-> requester.isAdmin, pc |-> "initial",
                               queue |-> << >>, broken |-> FALSE,
                               received |-> << m.sessions[id] >>,
                               since |-> << >>, at |-> 0])],
          resp |-> 200]

\* The first write is over: the handler reads session.status of the record
\* it holds, and returns or subscribes and waits for the first message.
streamAfterInitial(m, k) ==
    LET session == m.sessions[m.streams[k].sid]
    IN  IF session.status = "completed" \/ session.status = "error"
        THEN [m EXCEPT !.streams[k].pc = "done"]
        ELSE sseSubscribe([m EXCEPT !.streams[k].pc = "reading",
                                    !.streams[k].at = Len(m.streams[k].since)],
                          m.streams[k].sid, k)

\* The stream loop that writes the session as it is now instead of the
\* message it read.
streamReadLatest(m, k) ==
    [m EXCEPT !.streams[k].received = Append(@, m.sessions[m.streams[k].sid]),
              !.streams[k].queue = Tail(@),
              !.streams[k].pc = "written"]

\* reader.read() resolves with the oldest message of the controller and the
\* handler writes it to the client.
streamRead(m, k) ==
    [m EXCEPT !.streams[k].received = Append(@, Head(m.streams[k].queue)),
              !.streams[k].queue = Tail(@),
              !.streams[k].pc = "written"]

\* The write is over: the handler looks the session up again and leaves the
\* loop when it is gone or terminal.
streamCheck(m, k) ==
    LET st == m.streams[k]
        currentSession == getSession(m, st.sid, st.username, st.isAdmin)
    IN  IF currentSession = 0
           \/ m.sessions[st.sid].status = "completed"
           \/ m.sessions[st.sid].status = "error"
        THEN [m EXCEPT !.streams[k].pc = "done"]
        ELSE [m EXCEPT !.streams[k].pc = "reading"]

\* DELETE /api/sessions/:id: the manager after the handler and the HTTP
\* status it answers.
DeleteRoute(m, id, requester) ==
    IF getSession(m, id, requester.username, requester.isAdmin) = 0
    THEN [m |-> m, resp |-> 404]
    ELSE [m |-> deleteSession(m, id), resp |-> 200]

\* The retry route without its status check.
RetryRouteAnyStatus(m, id, requester) ==
    IF getSession(m, id, requester.username, requester.isAdmin) = 0
    THEN [m |-> m, resp |-> 404]
    ELSE [m |-> retrySession(m, id, << >>), resp |-> 200]

\* POST /api/sessions/:id/retry: the manager after the handler and the HTTP
\* status it answers.
RetryRoute(m, id, requester) ==
    IF getSession(m, id, requester.username, requester.isAdmin) = 0
    THEN [m |-> m, resp |-> 404]
    ELSE IF m.sessions[id].status # "error"
    THEN [m |-> m, resp |-> 400]
    ELSE [m |-> retrySession(m, id, << >>), resp |-> 200]

\* ---------------------------------------------------------------- actions
Init ==
    /\ sessions = << >>
    /\ store = {}
    /\ runningTasks = {}
    /\ tasks = << >>
    /\ disk = [i \in {} |-> 0]
    /\ reqs = << >>
    /\ now = 1
    /\ halted = FALSE
    /\ saved = << >>
    /\ published = << >>
    /\ subscribers = [i \in {} |-> {}]
    /\ streams = << >>
    /\ resp = 0

\* POST /api/sessions arrives; the handler awaits the body and the ticker
\* validation.  A request whose ticker is invalid is answered 400 before it
\* reaches the manager and is not modelled.
SubmitCreate(username, analysts) ==
    /\ ~halted
    /\ Len(sessions) + Cardinality({r \in 1..Len(reqs) : reqs[r].pc = "validating"})
           < MaxSessions
    /\ reqs' = Append(reqs, [pc |-> "validating", username |-> username,
                             analysts |-> analysts, sid |-> 0])
    /\ Install(Cur)
    /\ resp' = 0
    /\ UNCHANGED << now, halted >>

\* The handler resumes after validation: createSession, startSession and
\* the answer, in the second t.
CreateAndStart(r, t) ==
    /\ ~halted
    /\ r \in 1..Len(reqs) /\ reqs[r].pc = "validating"
    /\ t \in now..MaxClock
    /\ LET m1 == createSession(Cur, reqs[r].username, t)
           id == Len(m1.sessions)
       IN  /\ Install(startSession(m1, id, reqs[r].analysts))
           /\ reqs' = [reqs EXCEPT ![r].pc = "done", ![r].sid = id]
    /\ now' = t
    /\ resp' = 200
    /\ UNCHANGED halted

\* POST /api/sessions from arrival to answer, when no other request is
\* handled in between: the awaits before createSession touch no shared
\* state.
Create(username, analysts, t) ==
    /\ ~halted
    /\ reqs = << >>
    /\ Len(sessions) < MaxSessions
    /\ t \in now..MaxClock
    /\ LET m1 == createSession(Cur, username, t)
       IN  Install(startSession(m1, Len(m1.sessions), analysts))
    /\ now' = t
    /\ resp' = 200
    /\ UNCHANGED << reqs, halted >>

\* DELETE /api/sessions/:id
Delete(id, requester) ==
    /\ ~halted
    /\ LET r == DeleteRoute(Cur, id, requester)
       IN  Install(r.m) /\ resp' = r.resp
    /\ UNCHANGED << reqs, now, halted >>

\* POST /api/sessions/:id/retry
Retry(id, requester) ==
    /\ ~halted
    /\ LET r == RetryRoute(Cur, id, requester)
       IN  Install(r.m) /\ resp' = r.resp
    /\ UNCHANGED << reqs, now, halted >>

\* The bounds on what one run folds.
ChunkWithinBounds(id, chunk) ==
    /\ chunk.type = "token" =>
           Len(tasks[id].accumulatedContent) + Len(chunk.content) <= MaxAccLen
    /\ chunk.type = "node_end" => Len(sessions[id].progress) < MaxProgress

\* The feed yields a chunk to the task of session id.
FeedChunk(id, chunk) ==
    /\ ~halted
    /\ id \in 1..Len(tasks) /\ tasks[id].alive
    /\ ChunkWithinBounds(id, chunk)
    /\ Install(runAnalysisChunk(Cur, id, chunk))
    /\ resp' = 0
    /\ UNCHANGED << reqs, now, halted >>

\* The feed of session id ends.
FeedEnd(id) ==
    /\ ~halted
    /\ id \in 1..Len(tasks) /\ tasks[id].alive
    /\ Install(runAnalysisEnd(Cur, id))
    /\ resp' = 0
    /\ UNCHANGED << reqs, now, halted >>

\* The feed of session id throws: connection error, non-OK response, or the
\* overall timeout aborting the request.
FeedFail(id, message) ==
    /\ ~halted
    /\ id \in 1..Len(tasks) /\ tasks[id].alive
    /\ Install(runAnalysisCatch(Cur, id, message))
    /\ resp' = 0
    /\ UNCHANGED << reqs, now, halted >>

\* SIGTERM or SIGINT: gracefulShutdown, then process.exit.
Shutdown ==
    /\ ~halted
    /\ Install(gracefulShutdown(Cur))
    /\ halted' = TRUE
    /\ resp' = 0
    /\ UNCHANGED << reqs, now >>

\* The process is started again, after it exited or was killed: a new
\* SessionManager, then loadSessions.  Nothing of the old process is left
\* but sessions.json; ids stay unique across processes.
Restart ==
    /\ sessions' = [i \in 1..Len(sessions) |->
                       IF i \in DOMAIN disk THEN loadSessions(disk, i)
                       ELSE Unreachable]
    /\ store' = DOMAIN disk
    /\ runningTasks' = {}
    /\ tasks' = [i \in 1..Len(tasks) |-> NoTask]
    /\ halted' = FALSE
    /\ saved' = << >>
    /\ published' = << >>
    /\ subscribers' = [i \in {} |-> {}]
    /\ streams' = << >>
    /\ resp' = 0
    /\ UNCHANGED << disk, reqs, now >>

\* GET /api/sessions/:id/stream
StreamConnect(id, requester) ==
    /\ ~halted
    /\ Len(streams) < MaxStreams
    /\ LET r == StreamRoute(Cur, id, requester)
       IN  Install(r.m) /\ resp' = r.resp
    /\ UNCHANGED << reqs, now, halted >>

\* The handler of stream k resumes after its first write.
StreamAfterInitial(k) ==
    /\ ~halted
    /\ k \in 1..Len(streams) /\ streams[k].pc = "initial"
    /\ Install(streamAfterInitial(Cur, k))
    /\ resp' = 0
    /\ UNCHANGED << reqs, now, halted >>

\* The handler of stream k reads a message and writes it.
StreamRead(k) ==
    /\ ~halted
    /\ k \in 1..Len(streams) /\ streams[k].pc = "reading"
    /\ streams[k].queue # << >>
    /\ Install(streamRead(Cur, k))
    /\ resp' = 0
    /\ UNCHANGED << reqs, now, halted >>

\* The handler of stream k resumes after writing a message.
StreamCheck(k) ==
    /\ ~halted
    /\ k \in 1..Len(streams) /\ streams[k].pc = "written"
    /\ Install(streamCheck(Cur, k))
    /\ resp' = 0
    /\ UNCHANGED << reqs, now, halted >>

StreamIds == 1..MaxStreams

Ids == 1..MaxSessions

Next ==
    \/ \E u \in Owners, a \in AnalystChoices, t \in 1..MaxClock : Create(u, a, t)
    \/ \E id \in Ids, rq \in Requesters : Delete(id, rq)
    \/ \E id \in Ids, rq \in Requesters : Retry(id, rq)
    \/ \E id \in Ids, chunk \in LifecycleEvents : FeedChunk(id, chunk)
    \/ \E id \in Ids : FeedEnd(id)
    \/ \E id \in Ids, msg \in FailureMessages : FeedFail(id, msg)
    \/ Shutdown

Spec == Init /\ [][Next]_vars

\* Create requests of one registered user in flight together: the steps of
\* their handlers interleave with each other and with everything else.
ConcurrentOwners == {"alice"}

NextConcurrent ==
    \/ \E u \in ConcurrentOwners, a \in AnalystChoices : SubmitCreate(u, a)
    \/ \E r \in Ids, t \in 1..MaxClock : CreateAndStart(r, t)
    \/ \E id \in Ids, rq \in Requesters : Delete(id, rq)
    \/ \E id \in Ids, rq \in Requesters : Retry(id, rq)
    \/ \E id \in Ids, chunk \in LifecycleEvents : FeedChunk(id, chunk)
    \/ \E id \in Ids : FeedEnd(id)
    \/ \E id \in Ids, msg \in FailureMessages : FeedFail(id, msg)
    \/ Shutdown

ConcurrentSpec == Init /\ [][NextConcurrent]_vars

\* One registered user who creates and deletes her own sessions, with the
\* feed of every task bound to go on: streamTokens yields a chunk, ends, or
\* throws, at the latest when its 15 minute timer aborts the request.
FairOwners == {"alice"}
FairRequesters == { [username |-> u, isAdmin |-> (u \in AdminUsers)] : u \in FairOwners }
FairEvents == { [type |-> "complete", agent |-> "", content |-> "BUY"] }

TaskStep(id) ==
    \/ \E chunk \in FairEvents : FeedChunk(id, chunk)
    \/ FeedEnd(id)
    \/ \E msg \in FailureMessages : FeedFail(id, msg)

NextFair ==
    \/ \E u \in FairOwners, a \in AnalystChoices, t \in 1..MaxClock : Create(u, a, t)
    \/ \E id \in Ids, rq \in FairRequesters : Delete(id, rq)
    \/ \E id \in Ids : TaskStep(id)
    \/ Shutdown

FairSpec == Init /\ [][NextFair]_vars /\ \A id \in Ids : WF_vars(TaskStep(id))

\* One registered user; the process may exit or be killed in any state and
\* be started again on the file it left.
RestartEvents ==
    { [type |-> "node_end", agent |-> "Market Analyst", content |-> "r"],
      [type |-> "complete", agent |-> "", content |-> "BUY"] }

NextRestart ==
    \/ \E u \in FairOwners, a \in AnalystChoices, t \in 1..MaxClock : Create(u, a, t)
    \/ \E id \in Ids, rq \in FairRequesters : Delete(id, rq)
    \/ \E id \in Ids, rq \in FairRequesters : Retry(id, rq)
    \/ \E id \in Ids, chunk \in RestartEvents : FeedChunk(id, chunk)
    \/ \E id \in Ids : FeedEnd(id)
    \/ \E id \in Ids, msg \in FailureMessages : FeedFail(id, msg)
    \/ Shutdown
    \/ Restart

RestartSpec == Init /\ [][NextRestart]_vars

\* The feed in full: every chunk type, stages inside and outside AGENT_ORDER,
\* empty and non-empty content, decisions inside and outside BUY/SELL/HOLD,
\* and error texts shorter and longer than the limit.  One registered user
\* creates, retries and deletes her sessions.
X50 == "xxxxxxxxxxxxxxxxxxxxxxxxxxxxxxxxxxxxxxxxxxxxxxxxxx"
LongText == X50 \o X50 \o X50 \o X50 \o "y"

FeedEvents ==
    { [type |-> "node_start", agent |-> "Market Analyst", content |-> ""],
      [type |-> "token", agent |-> "Market Analyst", content |-> "a"],
      [type |-> "token", agent |-> "Social Analyst", content |-> "b"],
      [type |-> "node_end", agent |-> "Market Analyst", content |-> "r"],
      [type |-> "node_end", agent |-> "Market Analyst", content |-> ""],
      [type |-> "node_end", agent |-> "Intern", content |-> "r"],
      [type |-> "complete", agent |-> "", content |-> "BUY"],
      [type |-> "complete", agent |-> "", content |-> ""],
      [type |-> "complete", agent |-> "", content |-> "MAYBE"],
      [type |-> "error", agent |-> "", content |-> ""],
      [type |-> "error", agent |-> "", content |-> LongText],
      [type |-> "quota_error", agent |-> "", content |-> ""] }

\* error.message of what the feed throws: absent or empty, or longer than
\* the limit.
LongFailure == "Analysis service error: 500 " \o LongText
FeedFailures == { "", LongFailure }

FeedCreate(username, analysts) ==
    /\ Len(sessions) < MaxFeedSessions
    /\ Create(username, analysts, now)

NextFeed ==
    \/ \E u \in FairOwners, a \in AnalystChoices : FeedCreate(u, a)
    \/ \E id \in Ids, rq \in FairRequesters : Delete(id, rq)
    \/ \E id \in Ids, rq \in FairRequesters : Retry(id, rq)
    \/ \E id \in Ids, chunk \in FeedEvents : FeedChunk(id, chunk)
    \/ \E id \in Ids : FeedEnd(id)
    \/ \E id \in Ids, msg \in FeedFailures : FeedFail(id, msg)
    \/ Shutdown

FeedSpec == Init /\ [][NextFeed]_vars

\* Clients of the status stream: one registered user creates and deletes
\* her sessions and opens streams on them while their tasks fold the feed.
\* A handler that left its loop never unregisters its controller, which
\* goes on collecting messages: sessions are not retried here, so that what
\* a controller holds stays bounded.
\* The steps of a stream handler interleave with the tasks at its awaits.
NextStream ==
    \/ \E u \in FairOwners, a \in AnalystChoices : FeedCreate(u, a)
    \/ \E id \in Ids, rq \in FairRequesters : Delete(id, rq)
    \/ \E id \in Ids, chunk \in RestartEvents : FeedChunk(id, chunk)
    \/ \E id \in Ids : FeedEnd(id)
    \/ \E id \in Ids, msg \in FailureMessages : FeedFail(id, msg)
    \/ \E id \in Ids, rq \in FairRequesters : StreamConnect(id, rq)
    \/ \E k \in StreamIds : StreamAfterInitial(k)
    \/ \E k \in StreamIds : StreamRead(k)
    \/ \E k \in StreamIds : StreamCheck(k)

StreamSpec == Init /\ [][NextStream]_vars

\* ------------------------------------------------------------ properties
\* The hub on its own: callers subscribe to session ids, publish snapshots
\* for them, cancel their streams and close the sessions' connections.
HubSessionIds == 1..2
HubSnapshots ==
    { [ userId |-> "alice", status |-> st, decision |-> "",
        progress |-> << >>, reports |-> EmptyReports, createdAt |-> 1,
        errorMsg |-> "", currentAgent |-> "", analysts |-> << >> ]
      : st \in {"running", "completed"} }

HubSubscribe(sessionId) ==
    /\ Len(streams) < MaxHubStreams
    /\ LET m == [Cur EXCEPT !.streams =
                    Append(@, [sid |-> sessionId, username |-> "",
                               isAdmin |-> FALSE, pc |-> "reading",
                               queue |-> << >>, broken |-> FALSE,
                               received |-> << >>, since |-> << >>, at |-> 0])]
       IN  Install(sseSubscribe(m, sessionId, Len(streams) + 1))
    /\ resp' = 0
    /\ UNCHANGED << reqs, now, halted >>

HubPublish(sessionId, data) ==
    /\ \A k \in 1..Len(streams) : Len(streams[k].since) < MaxHubQueue
    /\ Install(ssePublish(NotePublished(Cur, sessionId, data), sessionId, data))
    /\ resp' = 0
    /\ UNCHANGED << reqs, now, halted >>

HubCancel(k) ==
    /\ k \in 1..Len(streams) /\ ~streams[k].broken
    /\ Install(sseCancel(Cur, streams[k].sid, k))
    /\ resp' = 0
    /\ UNCHANGED << reqs, now, halted >>

HubClose(sessionId) ==
    /\ Install(sseCloseSession(Cur, sessionId))
    /\ resp' = 0
    /\ UNCHANGED << reqs, now, halted >>

NextHub ==
    \/ \E sessionId \in HubSessionIds : HubSubscribe(sessionId)
    \/ \E sessionId \in HubSessionIds, data \in HubSnapshots :
           HubPublish(sessionId, data)
    \/ \E k \in 1..MaxHubStreams : HubCancel(k)
    \/ \E sessionId \in HubSessionIds : HubClose(sessionId)

HubSpec == Init /\ [][NextHub]_vars

\* One registered user submits every session with the same stage selection,
\* which is not the default one, and retries the sessions that fail.
SubmittedSelection == << "market" >>

NextSelection ==
    \/ \E u \in FairOwners : FeedCreate(u, SubmittedSelection)
    \/ \E id \in Ids, rq \in FairRequesters : Delete(id, rq)
    \/ \E id \in Ids, rq \in FairRequesters : Retry(id, rq)
    \/ \E id \in Ids, chunk \in FairEvents : FeedChunk(id, chunk)
    \/ \E id \in Ids : FeedEnd(id)
    \/ \E id \in Ids, msg \in FailureMessages : FeedFail(id, msg)

SelectionSpec == Init /\ [][NextSelection]_vars

RegisteredUsers == UserNames \ {""}

RunningOf(u) ==
    {i \in store : sessions[i].status = "running" /\ sessions[i].userId = u}

QueuedOf(u) ==
    {i \in store : sessions[i].status = "queued" /\ sessions[i].userId = u}

\* A task whose session was deleted while it ran.
Cancelled(id) == id \in 1..Len(tasks) /\ tasks[id].alive /\ tasks[id].aborted

\* C1: in every reachable state a registered user has at most one session of
\* status running in the store.
C1_OneRunningPerUser ==
    \A u \in RegisteredUsers : Cardinality(RunningOf(u)) <= 1

\* C5: no session of the anonymous user ('') is ever queued.
C5_AnonymousNeverQueued ==
    \A i \in store : sessions[i].userId = "" => sessions[i].status # "queued"

\* C8: no step publishes for a session id that has been deleted: every
\* publish of a step is for a record still in the store.
C8_NoPublishAfterDelete ==
    \A k \in 1..Len(published) : published[k].id \in store

\* C9: whatever the feed does next (a chunk, its end, a failure), the task of
\* a cancelled session leaves every field of the session record as it is.
C9_CancelledTaskMutatesNothing ==
    \A id \in Ids :
        (Cancelled(id) /\ ~halted) =>
            /\ \A chunk \in LifecycleEvents :
                   runAnalysisChunk(Cur, id, chunk).sessions[id] = sessions[id]
            /\ runAnalysisEnd(Cur, id).sessions[id] = sessions[id]
            /\ \A msg \in FailureMessages :
                   runAnalysisCatch(Cur, id, msg).sessions[id] = sessions[id]

\* The step ends the runAnalysis invocation of session id.
TaskEnds(id) == id \in 1..Len(tasks) /\ tasks[id].alive /\ ~tasks'[id].alive

\* The step makes exactly one queued session of u running, one of smallest
\* createdAt, and leaves the user's other queued sessions queued.
PromotesOldest(u) ==
    \E q \in QueuedOf(u) :
        /\ sessions'[q].status = "running"
        /\ \A o \in QueuedOf(u) : sessions[q].createdAt <= sessions[o].createdAt
        /\ \A o \in QueuedOf(u) \ {q} : o \in store' /\ sessions'[o].status = "queued"

StartRequested(id) ==
    /\ Len(saved') > 0
    /\ id \in DOMAIN saved'[1]
    /\ saved'[1][id].status = "pending"

RetryAccepted(id) ==
    /\ sessions[id].status = "error"
    /\ resp' = 200
    /\ id \in store'
    /\ sessions'[id] # sessions[id]

\* C6: a retry that is accepted saves the record as pending with progress,
\* reports, decision, errorMsg and currentAgent empty, then leaves it queued
\* (the owner has a running session) or running (slot free); every snapshot
\* the step saves or publishes of it is free of the prior run's progress,
\* reports and decision.
C6_RetryResets ==
    [][ \A id \in store :
           RetryAccepted(id) =>
               /\ Len(saved') = 2
               /\ saved'[1][id] =
                      [sessions[id] EXCEPT !.status = "pending", !.errorMsg = "",
                                           !.progress = << >>,
                                           !.reports = EmptyReports,
                                           !.decision = "", !.currentAgent = ""]
               /\ saved'[2][id] = sessions'[id]
               /\ published' = << [id |-> id, data |-> sessions'[id]] >>
               /\ sessions'[id].progress = << >>
               /\ sessions'[id].reports = EmptyReports
               /\ sessions'[id].decision = ""
               /\ sessions'[id].errorMsg = ""
               /\ IF RunningOf(sessions[id].userId) # {}
                  THEN sessions'[id].status = "queued"
                       /\ sessions'[id].currentAgent = ""
                  ELSE sessions'[id].status = "running"
                       /\ sessions'[id].currentAgent = AGENT_ORDER[1] ]_vars

\* A failed session has just been retried: it was saved as pending and is
\* running again, with no progress and no reports, next to a younger session.
C6_Witness ==
    \E id \in store :
        /\ resp = 200
        /\ Len(saved) = 2
        /\ saved[1][id].status = "pending"
        /\ disk[id].status = "running"
        /\ sessions[id].status = "running"
        /\ sessions[id].progress = << >>
        /\ sessions[id].reports = EmptyReports
        /\ \E j \in store \ {id} : sessions[j].createdAt > sessions[id].createdAt

\* C7: a retry request on a session whose status is not error is answered
\* with an error (404 when the requester may not read it, else 400) and
\* changes no record, no task and nothing of the store; and no step changes
\* a completed record that stays in the store.
C7_RetryRejected ==
    /\ [](\A id \in store, rq \in Requesters :
              sessions[id].status # "error" =>
                  RetryRoute(Cur, id, rq) =
                      [m |-> Cur,
                       resp |-> IF getSession(Cur, id, rq.username, rq.isAdmin) = 0
                                THEN 404 ELSE 400])
    /\ [][ \A id \in store \cap store' :
              sessions[id].status = "completed" => sessions'[id] = sessions[id]
          ]_vars

\* A retry of a completed session has just been answered 400.
C7_Witness ==
    /\ resp = 400
    /\ \E id \in store : sessions[id].status = "completed"
                         /\ sessions[id].decision = "BUY"

C10_CancelledTaskPromotes ==
    /\ (~halted /\ \E id \in Ids : Cancelled(id)) ~>
           (halted \/ \A id \in Ids : ~Cancelled(id))
    /\ [][ \A id \in Ids :
              ( /\ Cancelled(id) /\ TaskEnds(id)
                /\ sessions[id].userId # ""
                /\ QueuedOf(sessions[id].userId) # {}
                /\ RunningOf(sessions[id].userId) = {} )
              => PromotesOldest(sessions[id].userId) ]_vars

\* The task of a deleted session of alice has just returned at its abort
\* check: the step published nothing but the running snapshot of her queued
\* session, which it promoted.
C10_Witness ==
    \E q \in store, id \in 1..Len(sessions) :
        /\ id \notin store /\ id < q
        /\ sessions[q].userId = "alice" /\ sessions[q].status = "running"
        /\ resp = 0
        /\ published = << [id |-> q, data |-> sessions[q]] >>
        /\ Cardinality(RunningOf("alice")) = 1

\* C11: a start of the process loads every record of sessions.json and
\* nothing else; a record saved as running is loaded as error with a
\* non-empty errorMsg and empty currentAgent, every other record with the
\* status it was saved with; so no loaded session is running.
C11_LoadMarksRunningAsError ==
    [][ Restart =>
          /\ store' = DOMAIN disk
          /\ \A i \in DOMAIN disk :
                /\ sessions'[i].status # "running"
                /\ IF disk[i].status = "running"
                   THEN /\ sessions'[i].status = "error"
                        /\ sessions'[i].errorMsg # ""
                        /\ sessions'[i].currentAgent = ""
                   ELSE sessions'[i].status = disk[i].status ]_vars

\* The process was started on a file that held a running, a queued and a
\* completed record: they are loaded as error, queued and completed, and no
\* task runs.
C11_Witness ==
    /\ runningTasks = {}
    /\ \E i, j, k \in store :
          /\ disk[i].status = "running" /\ sessions[i].status = "error"
          /\ sessions[i].errorMsg = "Server restarted, analysis interrupted"
          /\ disk[j].status = "queued" /\ sessions[j].status = "queued"
          /\ disk[k].status = "completed" /\ sessions[k].status = "completed"

\* C12: a requester who is not an admin is answered the record exactly when
\* the record's userId is the requester's own (the anonymous requester:
\* exactly the anonymous records), and otherwise what an unknown id is
\* answered; an admin is answered every record.
C12_NonAdminReadsOwnOnly ==
    \A id \in store, rq \in Requesters :
        LET unknown == GetRoute(Cur, Len(sessions) + 1, rq)
            got == GetRoute(Cur, id, rq)
        IN  IF rq.isAdmin \/ sessions[id].userId = rq.username
            THEN got = [resp |-> 200, body |-> << sessions[id] >>]
            ELSE got = unknown /\ unknown.resp = 404

\* C13: in the list answered to any requester, a summary has a
\* queuePosition exactly when it is queued; the positions of one user's
\* queued summaries are 1..n, and they ascend with createdAt, so that the
\* oldest queued session of the user has position 1 (stated for the
\* registered users, whose sessions queue by design).
C13_QueuePositionsByAge ==
    \A rq \in Requesters :
        LET list == getAllSessionSummaries(Cur, rq.username, rq.isAdmin)
            queued(u) == {k \in 1..Len(list) :
                             list[k].status = "queued" /\ list[k].userId = u}
        IN  /\ \A k \in 1..Len(list) :
                   (list[k].queuePosition # 0) <=> (list[k].status = "queued")
            /\ \A u \in RegisteredUsers :
                   /\ {list[k].queuePosition : k \in queued(u)}
                          = 1..Cardinality(queued(u))
                   /\ \A a, b \in queued(u) :
                          list[a].createdAt < list[b].createdAt
                              => list[a].queuePosition < list[b].queuePosition

\* The task of session id is consuming its feed: the session is in the
\* store and running, and the task was not cancelled.
Folding(id) ==
    /\ ~halted
    /\ id \in store /\ sessions[id].status = "running"
    /\ tasks[id].alive /\ ~tasks[id].aborted

\* C14: a session has a decision exactly when it is completed.
C14_DecisionIffCompleted ==
    \A i \in store : (sessions[i].decision # "") <=> (sessions[i].status = "completed")

\* C15: a session created in this process has an errorMsg exactly when its
\* status is error.
C15_ErrorMsgIffError ==
    \A i \in store : (sessions[i].errorMsg # "") <=> (sessions[i].status = "error")

\* A feed that failed with an empty message left the session in error with
\* the fallback text.
C15_Witness ==
    \E i \in store :
        /\ sessions[i].status = "error"
        /\ sessions[i].errorMsg = "Unknown error"
        /\ published = << [id |-> i, data |-> sessions[i]] >>

\* C16: no errorMsg is longer than 200 characters; and when the feed of a
\* running session fails, with whatever message, the catch clause leaves
\* the session in error with a non-empty errorMsg of at most 200 characters
\* and empty currentAgent, publishes that record, and the task ends.
C16_FeedFailureEndsInError ==
    /\ \A i \in 1..Len(sessions) : Len(sessions[i].errorMsg) <= 200
    /\ \A id \in Ids :
          Folding(id) =>
              \A msg \in FeedFailures :
                  LET after == runAnalysisCatch(Cur, id, msg)
                      session == after.sessions[id]
                  IN  /\ session.status = "error"
                      /\ session.errorMsg # ""
                      /\ Len(session.errorMsg) <= 200
                      /\ session.currentAgent = ""
                      /\ Len(after.published) >= 1
                      /\ after.published[1] = [id |-> id, data |-> session]
                      /\ ~after.tasks[id].alive
                      /\ id \notin after.runningTasks

\* The feed has just failed with a message of more than 200 characters: the
\* session is in error with the first 200 of them, published, and its task
\* is over.
C16_Witness ==
    \E i \in store :
        /\ sessions[i].status = "error"
        /\ sessions[i].errorMsg = SubSeq(LongFailure, 1, 200)
        /\ Len(sessions[i].errorMsg) = 200
        /\ sessions[i].currentAgent = ""
        /\ published = << [id |-> i, data |-> sessions[i]] >>
        /\ ~tasks[i].alive

\* C17: the progress of a session names no stage twice and only stages of
\* AGENT_ORDER.
C17_ProgressDistinctKnownStages ==
    \A i \in store :
        LET progress == sessions[i].progress
        IN  /\ \A k \in 1..Len(progress) :
                   \E n \in 1..Len(AGENT_ORDER) : AGENT_ORDER[n] = progress[k]
            /\ \A k, l \in 1..Len(progress) : progress[k] = progress[l] => k = l

\* The stage after `stage` in the fixed order; empty after the last one.
StageAfter(stage) ==
    IF \E n \in 1..(Len(AGENT_ORDER) - 1) : AGENT_ORDER[n] = stage
    THEN AGENT_ORDER[(CHOOSE n \in 1..(Len(AGENT_ORDER) - 1) : AGENT_ORDER[n] = stage) + 1]
    ELSE ""

\* C18: folding any node_end that names a stage, on a running session, sets
\* reports[stage] to the chunk's content, appends the stage to progress,
\* sets currentAgent to the stage after it, and publishes the record.
C18_NodeEndFolds ==
    \A id \in Ids :
        Folding(id) =>
            \A chunk \in FeedEvents :
                (chunk.type = "node_end" /\ chunk.agent # "") =>
                    LET after == runAnalysisChunk(Cur, id, chunk)
                        session == after.sessions[id]
                    IN  /\ chunk.agent \in DOMAIN session.reports
                        /\ session.reports[chunk.agent] = chunk.content
                        /\ session.progress = Append(sessions[id].progress, chunk.agent)
                        /\ session.currentAgent = StageAfter(chunk.agent)
                        /\ after.published = << [id |-> id, data |-> session] >>

\* C19: folding a token that names a stage and carries content makes
\* reports[stage] its value before the chunk (empty when there was none, or
\* when the stage was just started) followed by the content, and publishes
\* once.
C19_TokenAppends ==
    \A id \in Ids :
        Folding(id) =>
            \A chunk \in FeedEvents :
                (chunk.type = "token" /\ chunk.agent # "" /\ chunk.content # "") =>
                    LET after == runAnalysisChunk(Cur, id, chunk)
                        session == after.sessions[id]
                        justStarted == /\ sessions[id].currentAgent = chunk.agent
                                       /\ tasks[id].accumulatedContent = ""
                        before == IF justStarted
                                     \/ chunk.agent \notin DOMAIN sessions[id].reports
                                  THEN ""
                                  ELSE sessions[id].reports[chunk.agent]
                    IN  /\ chunk.agent \in DOMAIN session.reports
                        /\ session.reports[chunk.agent] = before \o chunk.content
                        /\ after.published = << [id |-> id, data |-> session] >>

\* C20: folding a complete chunk on a running session makes it completed
\* with empty currentAgent, publishes it and ends the task; the decision is
\* the chunk's content when that is BUY, SELL or HOLD, and HOLD otherwise.
C20_CompleteSetsDecision ==
    \A id \in Ids :
        Folding(id) =>
            \A chunk \in FeedEvents :
                chunk.type = "complete" =>
                    LET after == runAnalysisChunk(Cur, id, chunk)
                        session == after.sessions[id]
                    IN  /\ session.status = "completed"
                        /\ session.currentAgent = ""
                        /\ session.decision =
                               IF chunk.content \in {"BUY", "SELL", "HOLD"}
                               THEN chunk.content ELSE "HOLD"
                        /\ Len(after.published) >= 1
                        /\ after.published[1] = [id |-> id, data |-> session]
                        /\ ~after.tasks[id].alive

\* C21: when the feed of a running session whose task was not cancelled
\* ends, the stream-end path makes the session completed with empty
\* currentAgent and publishes it, and a session of the owner that was queued
\* with the smallest createdAt is running afterwards.
C21_SilentEndCompletesAndPromotes ==
    \A id \in Ids :
        Folding(id) =>
            LET after == runAnalysisEnd(Cur, id)
                session == after.sessions[id]
                waiting == QueuedOf(sessions[id].userId)
            IN  /\ session.status = "completed"
                /\ session.currentAgent = ""
                /\ Len(after.published) >= 1
                /\ after.published[1] = [id |-> id, data |-> session]
                /\ waiting # {} =>
                       \E q \in waiting :
                           /\ \A o \in waiting :
                                  sessions[q].createdAt <= sessions[o].createdAt
                           /\ after.sessions[q].status = "running"

\* The status changes a record may make in one stretch of code.
AllowedTransitions ==
    { << "pending", "queued" >>, << "pending", "running" >>,
      << "queued", "running" >>, << "running", "completed" >>,
      << "running", "error" >>, << "error", "pending" >> }

\* C22: in every step, a record that stays in the store keeps its status,
\* or makes one allowed transition, or (retry) goes from error to pending,
\* is saved as pending, and from pending to queued or running; a record
\* that appears was saved as pending and is queued or running; a record
\* disappears only in a step that answers 200, removes that record alone
\* and saves the store without it (delete).
C22_OnlyAllowedTransitions ==
    [][ /\ \A id \in store \cap store' :
              \/ sessions'[id].status = sessions[id].status
              \/ << sessions[id].status, sessions'[id].status >> \in AllowedTransitions
              \/ /\ sessions[id].status = "error"
                 /\ StartRequested(id)
                 /\ << "pending", sessions'[id].status >> \in AllowedTransitions
        /\ \A id \in store' \ store :
              /\ StartRequested(id)
              /\ << "pending", sessions'[id].status >> \in AllowedTransitions
        /\ \A id \in store \ store' :
              /\ store' = store \ {id}
              /\ resp' = 200
              /\ Len(saved') = 1 /\ DOMAIN saved'[1] = store'
      ]_vars

\* alice has a completed session, a session in error and a running one that
\* was promoted from the queue in the step that ended another.
C22_Witness ==
    \E a, b, c \in store :
        /\ sessions[a].status = "completed"
        /\ sessions[b].status = "error"
        /\ sessions[c].status = "running"
        /\ \A i \in {a, b, c} : sessions[i].userId = "alice"
        /\ Len(published) = 2
        /\ published[2] = [id |-> c, data |-> sessions[c]]

\* Controller k is registered in the hub for the session of its stream.
Subscribed(k) ==
    /\ streams[k].sid \in DOMAIN subscribers
    /\ k \in subscribers[streams[k].sid]

Terminal(snapshot) == snapshot.status \in {"completed", "error"}

UpToTerminal(seq) ==
    LET ends == {n \in 1..Len(seq) : Terminal(seq[n])}
    IN  IF ends = {} THEN seq
        ELSE SubSeq(seq, 1, CHOOSE n \in ends : \A o \in ends : n <= o)

\* C24: a stream that has ended was sent the snapshot of connect time and
\* then every snapshot published since, up to and including the first
\* terminal one, and the last snapshot it was sent is terminal; a stream
\* still in its loop has lost nothing: what it was sent after the initial
\* snapshot and what its controller holds is all that was published since
\* it was opened.
C24_StreamDeliversUpToTerminal ==
    \A k \in 1..Len(streams) :
        /\ streams[k].pc = "done" =>
               /\ Terminal(streams[k].received[Len(streams[k].received)])
               /\ streams[k].received
                      = << streams[k].received[1] >> \o UpToTerminal(streams[k].since)
        /\ streams[k].pc \in {"reading", "written"} =>
               Tail(streams[k].received) \o streams[k].queue = streams[k].since

\* C25: the file holds exactly the records of the store with their current
\* field values.
C25_DiskEqualsStore ==
    /\ DOMAIN disk = store
    /\ \A i \in store : disk[i] = sessions[i]

\* C26: for every requester, the list answered holds each record of the
\* scope once and no other (an admin: the whole store; a named requester:
\* the records whose userId is the requester's; the anonymous requester: the
\* records whose userId is empty), and the running count answered is the
\* number of summaries of that list whose status is running.
C26_ListAndCountScoped ==
    \A rq \in Requesters :
        LET list == getAllSessionSummaries(Cur, rq.username, rq.isAdmin)
            scope == IF rq.isAdmin THEN store
                     ELSE {i \in store : sessions[i].userId = rq.username}
        IN  /\ {list[k].id : k \in 1..Len(list)} = scope
            /\ Len(list) = Cardinality(scope)
            /\ \A k \in 1..Len(list) :
                   /\ list[k].userId = sessions[list[k].id].userId
                   /\ list[k].status = sessions[list[k].id].status
            /\ getRunningCount(Cur, rq.username, rq.isAdmin)
                   = Cardinality({k \in 1..Len(list) : list[k].status = "running"})

\* An anonymous session and a session of alice run and another session of
\* alice is queued: alice lists two sessions and counts one running, the
\* anonymous requester lists one and counts one, the admin lists three and
\* counts two.
C26_Witness ==
    /\ \E a, b, c \in store :
          /\ sessions[a].userId = "" /\ sessions[a].status = "running"
          /\ sessions[b].userId = "alice" /\ sessions[b].status = "running"
          /\ sessions[c].userId = "alice" /\ sessions[c].status = "queued"
    /\ Len(getAllSessionSummaries(Cur, "alice", FALSE)) = 2
    /\ getRunningCount(Cur, "alice", FALSE) = 1
    /\ Len(getAllSessionSummaries(Cur, "", FALSE)) = 1
    /\ getRunningCount(Cur, "", FALSE) = 1
    /\ \E rq \in Requesters :
          /\ rq.isAdmin
          /\ Len(getAllSessionSummaries(Cur, rq.username, rq.isAdmin)) = 3
          /\ getRunningCount(Cur, rq.username, rq.isAdmin) = 2

\* The error chunks of the feed, with and without a message.
ErrorEvents ==
    { [type |-> "quota_error", agent |-> "", content |-> ""],
      [type |-> "timeout_error", agent |-> "", content |-> ""],
      [type |-> "error", agent |-> "", content |-> ""],
      [type |-> "error", agent |-> "", content |-> "boom"] }

\* C27: folding quota_error, timeout_error or error on a running session
\* whose task was not cancelled makes it error with a non-empty errorMsg and
\* empty currentAgent, keeps its progress, reports and decision, publishes
\* it once and ends the task; a record that is completed or error has no
\* live task, and no step changes it while it stays in the store, except an
\* accepted retry.
C27_ErrorEventsEndTheTask ==
    /\ [](\A id \in Ids :
             /\ Folding(id) =>
                   \A chunk \in ErrorEvents :
                       LET after == runAnalysisChunk(Cur, id, chunk)
                           session == after.sessions[id]
                       IN  /\ session = [sessions[id] EXCEPT
                                            !.status = "error",
                                            !.errorMsg = session.errorMsg,
                                            !.currentAgent = ""]
                           /\ session.errorMsg # ""
                           /\ Cardinality({n \in 1..Len(after.published) :
                                   after.published[n].id = id}) = 1
                           /\ after.published[1] = [id |-> id, data |-> session]
                           /\ ~after.tasks[id].alive
                           /\ id \notin after.runningTasks
             /\ (id \in store /\ Terminal(sessions[id]) /\ ~halted)
                   => ~tasks[id].alive)
    /\ [][ \A id \in store \cap store' :
              Terminal(sessions[id]) =>
                  sessions'[id] = sessions[id] \/ RetryAccepted(id) ]_vars

\* The feed of a running session has just delivered quota_error after a
\* stage had ended: the session is in error, it was published once, and its
\* task is over.
C27_Witness ==
    \E id \in store :
        /\ sessions[id].status = "error"
        /\ sessions[id].errorMsg = "API quota exhausted"
        /\ sessions[id].currentAgent = ""
        /\ sessions[id].progress = << "Market Analyst" >>
        /\ resp = 0
        /\ published = << [id |-> id, data |-> sessions[id]] >>
        /\ ~tasks[id].alive /\ id \notin runningTasks

\* The controllers the hub holds for a session id.
SubscribersOf(m, sessionId) ==
    IF sessionId \in DOMAIN m.subscribers THEN m.subscribers[sessionId] ELSE {}

\* C28: publish(sessionId, data) appends data, whole, to the queue of every
\* controller registered for sessionId whose enqueue does not throw and
\* keeps it registered, removes the registered controllers whose enqueue
\* throws, and leaves every other controller, the subscribers of every
\* other id and the session records as they are; after closeSession the
\* hub holds no controller for the id and what it holds for other ids is
\* unchanged; and a registered controller that was never closed holds
\* exactly what was published for its id since it subscribed.
C28_PublishDeliversToSubscribers ==
    /\ \A sessionId \in HubSessionIds, data \in HubSnapshots :
          LET after == ssePublish(Cur, sessionId, data)
              controllers == SubscribersOf(Cur, sessionId)
          IN  /\ \A k \in 1..Len(streams) :
                    IF k \in controllers /\ ~streams[k].broken
                    THEN /\ after.streams[k] =
                               [streams[k] EXCEPT !.queue = Append(@, data)]
                         /\ k \in SubscribersOf(after, sessionId)
                    ELSE /\ after.streams[k] = streams[k]
                         /\ k \notin SubscribersOf(after, sessionId)
              /\ \A o \in HubSessionIds \ {sessionId} :
                    SubscribersOf(after, o) = SubscribersOf(Cur, o)
              /\ after.sessions = sessions /\ after.store = store
    /\ \A sessionId \in HubSessionIds :
          LET after == sseCloseSession(Cur, sessionId)
          IN  /\ SubscribersOf(after, sessionId) = {}
              /\ sessionId \notin DOMAIN after.subscribers
              /\ \A o \in HubSessionIds \ {sessionId} :
                    SubscribersOf(after, o) = SubscribersOf(Cur, o)
    /\ \A k \in 1..Len(streams) :
          (Subscribed(k) /\ ~streams[k].broken) => streams[k].queue = streams[k].since

\* Three controllers subscribed, the first two to session 1 and the third to
\* session 2; the first was cancelled and a publish for session 1 then
\* removed it from the hub, reached the second and left the third alone.
C28_Witness ==
    /\ Len(streams) = 3
    /\ streams[1].sid = 1 /\ streams[2].sid = 1 /\ streams[3].sid = 2
    /\ streams[1].broken /\ streams[1].queue = << >>
    /\ 1 \in DOMAIN subscribers /\ subscribers[1] = {2}
    /\ Len(streams[2].queue) = 1 /\ streams[2].queue[1].status = "running"
    /\ 2 \in DOMAIN subscribers /\ subscribers[2] = {3}
    /\ streams[3].queue = << >>

\* C29: with a feed that eventually yields a terminal chunk, ends or throws
\* (the overall timeout aborts the request, which throws), every session
\* that is running is later completed, error or gone from the store: at
\* any time, each session id has a later time at which it is not running.
C29_RunningEventuallyEnds ==
    \A id \in Ids :
        []<>(id \notin store \/ sessions[id].status # "running")

\* alice's first session has completed and her second, which waited in the
\* queue while the first ran, has failed: neither is running any more.
C29_Witness ==
    \E a, b \in store :
        /\ a < b
        /\ sessions[a].status = "completed"
        /\ sessions[b].status = "error"
        /\ sessions[b].errorMsg = "boom"
        /\ sessions[b].currentAgent = ""
        /\ ~tasks[a].alive /\ ~tasks[b].alive
        /\ runningTasks = {}
        /\ ~halted

\* C30: folding a heartbeat chunk on a running session whose task was not
\* cancelled leaves the manager as it was: no field of any record changes,
\* nothing is published, nothing is saved, and the task stays alive with
\* what it had accumulated.
C30_HeartbeatChangesNothing ==
    \A id \in Ids :
        Folding(id) =>
            LET after == runAnalysisChunk(Cur, id,
                             [type |-> "heartbeat", agent |-> "", content |-> ""])
            IN  /\ after = Cur
                /\ after.sessions[id] = sessions[id]
                /\ after.published = << >> /\ after.saved = << >>
                /\ after.tasks[id].alive /\ id \in after.runningTasks

\* A task has just folded a heartbeat: every session created is in the
\* store and running with its task alive, and the step answered no request,
\* saved nothing and published nothing.
C30_Witness ==
    /\ Len(sessions) >= 2
    /\ \A id \in 1..Len(sessions) : Folding(id)
    /\ resp = 0
    /\ saved = << >>
    /\ published = << >>

\* The stages for which the feed of the full specification carries a
\* node_start or a node_end chunk.
StagesOfFeed ==
    { chunk.agent : chunk \in {e \in FeedEvents : e.type \in {"node_start", "node_end"}} }

\* C31: a session has a report only for a stage for which a node_start or a
\* node_end chunk was folded: with the feed of the full specification, only
\* for the stages that feed starts or ends.
C31_ReportsOnlyForStartedStages ==
    \A i \in store : DOMAIN sessions[i].reports \subseteq StagesOfFeed

\* C32: a queued session is always going to be started: while the process
\* runs, the owner of every queued session has a task alive, whose end
\* promotes a queued session of that owner.
C32_QueuedWillBeStarted ==
    ~halted =>
        \A id \in store :
            sessions[id].status = "queued" =>
                \E r \in 1..Len(tasks) :
                    /\ tasks[r].alive
                    /\ sessions[r].userId = sessions[id].userId

\* C33: a delete or a retry request of a requester who is not an admin, on
\* a session whose owner is a named user other than the requester, is
\* answered 404 and leaves the manager (store, records, tasks, file, hub)
\* as it was; the requester may be named or anonymous.
C33_ForeignDeleteRetryRejected ==
    \A id \in store, rq \in Requesters :
        ( /\ ~rq.isAdmin
          /\ sessions[id].userId # ""
          /\ sessions[id].userId # rq.username )
        => /\ DeleteRoute(Cur, id, rq) = [m |-> Cur, resp |-> 404]
           /\ RetryRoute(Cur, id, rq) = [m |-> Cur, resp |-> 404]

\* The query string of a stream request: any username, registered or not,
\* and any isAdmin flag.
StreamQueries ==
    { [username |-> u, isAdmin |-> a] : u \in UserNames \cup {"carol"}, a \in BOOLEAN }

\* The user context the middleware computes for an identity: admin exactly
\* when the name is in the configured set.
UserContext(username) == [username |-> username, isAdmin |-> (username \in AdminUsers)]

\* C34: the stream endpoint opens a stream on a session (and sends its
\* snapshot) only for a requester whose identity, with the admin flag the
\* configured admin set gives it, is answered that session by get.
C34_StreamOnlyForReaders ==
    \A id \in store, query \in StreamQueries :
        StreamRoute(Cur, id, query).resp = 200
            => GetRoute(Cur, id, UserContext(query.username)).resp = 200

\* C35: the controller of a stream whose handler has returned is no longer
\* registered in the hub.
C35_EndedStreamsUnsubscribed ==
    \A k \in 1..Len(streams) : streams[k].pc = "done" => ~Subscribed(k)

\* C36: a stream on a session that was deleted is going to end: its handler
\* has returned, or is about to look the session up, or has a message to
\* read, or a task of the session is still alive that may publish one.
C36_StreamOfDeletedSessionEnds ==
    \A k \in 1..Len(streams) :
        streams[k].sid \notin store =>
            \/ streams[k].pc \in {"done", "written", "initial"}
            \/ streams[k].queue # << >>
            \/ tasks[streams[k].sid].alive

\* C37: every task runs with the stage selection its session was submitted
\* with: when every session is submitted with the same selection, every
\* task alive was started with that selection.
C37_TasksRunSubmittedSelection ==
    \A id \in 1..Len(tasks) :
        tasks[id].alive => tasks[id].analysts = SubmittedSelection

\* C38: a session of the store is running exactly when a task is registered
\* for its id in runningTasks, that task is alive and was not cancelled, and
\* no task is registered for an id that is not in the store.
C38_RunningIffTaskRegistered ==
    /\ runningTasks \subseteq store
    /\ \A id \in store :
          /\ sessions[id].status = "running" <=> id \in runningTasks
          /\ id \in runningTasks => tasks[id].alive /\ ~tasks[id].aborted

\* alice's first session has completed and left the registry, her second
\* was promoted and is the only registered task, her third waits in the
\* queue.
C38_Witness ==
    \E a, b, c \in store :
        /\ sessions[a].status = "completed" /\ ~tasks[a].alive
        /\ sessions[b].status = "running" /\ tasks[b].alive
        /\ sessions[c].status = "queued" /\ ~tasks[c].alive
        /\ \A i \in {a, b, c} : sessions[i].userId = "alice"
        /\ runningTasks = {b}

\* C39: a session that a retry puts in the queue is not promoted before a
\* session of the same user that was queued already: when a registered
\* user has a running session b, a queued session q and a session r in
\* error, and r is retried and then the feed of b ends, r is still queued.
C39_RetriedSessionWaitsItsTurn ==
    \A r, b, q \in store :
        ( /\ sessions[r].userId \in RegisteredUsers
          /\ sessions[b].userId = sessions[r].userId
          /\ sessions[q].userId = sessions[r].userId
          /\ sessions[r].status = "error"
          /\ Folding(b)
          /\ sessions[q].status = "queued" )
        => LET retried == RetryRoute(Cur, r, UserContext(sessions[r].userId)).m
               after == runAnalysisEnd(retried, b)
           IN  /\ retried.sessions[r].status = "queued"
               /\ after.sessions[r].status = "queued"
               /\ \E o \in store :
                     /\ sessions[o].status = "queued"
                     /\ sessions[o].userId = sessions[r].userId
                     /\ after.sessions[o].status = "running"

\* C40: gracefulShutdown, run in any state of the live process, leaves no
\* session running: every session that was running is error with a
\* non-empty errorMsg and empty currentAgent and is otherwise as it was,
\* every other session is unchanged, every registered task is signalled
\* and the registry is empty, and the file holds no running record; and
\* once the process has shut down, that is the state it is in.
C40_ShutdownInterruptsRunning ==
    /\ ~halted =>
          LET after == gracefulShutdown(Cur)
          IN  /\ after.store = store
              /\ \A id \in store :
                    IF sessions[id].status = "running"
                    THEN /\ after.sessions[id] =
                               [sessions[id] EXCEPT
                                   !.status = "error",
                                   !.errorMsg = after.sessions[id].errorMsg,
                                   !.currentAgent = ""]
                         /\ after.sessions[id].errorMsg # ""
                    ELSE after.sessions[id] = sessions[id]
              /\ \A id \in runningTasks : after.tasks[id].aborted
              /\ after.runningTasks = {}
              /\ \A i \in DOMAIN after.disk : after.disk[i].status # "running"
    /\ halted =>
          /\ \A id \in store : sessions[id].status # "running"
          /\ runningTasks = {}
          /\ \A id \in 1..Len(tasks) : tasks[id].alive => tasks[id].aborted
          /\ \A i \in DOMAIN disk : disk[i].status # "running"

\* The process has shut down while an anonymous session and a session of
\* alice ran and another session of alice waited: the two are in error,
\* in memory and in the file, their tasks are signalled, and the queued
\* session is still queued.
C40_Witness ==
    /\ halted
    /\ \E a, b, c \in store :
          /\ sessions[a].userId = "" /\ sessions[b].userId = "alice"
          /\ sessions[c].userId = "alice" /\ sessions[c].status = "queued"
          /\ \A i \in {a, b} :
                /\ sessions[i].status = "error"
                /\ sessions[i].errorMsg =
                       "Server restarted, analysis interrupted (click retry to continue)"
                /\ sessions[i].currentAgent = ""
                /\ disk[i] = sessions[i]
                /\ tasks[i].alive /\ tasks[i].aborted
          /\ disk[c].status = "queued"
    /\ runningTasks = {}
    /\ Len(saved) = 1

====
